---- MODULE Spec2Model ----
(***************************************************************************)
(* TemplateFactory: template/component blocks, object ids and the suffix   *)
(* scheme that addresses the elements of a template instance.              *)
(*                                                                         *)
(* A string is a sequence of one-character strings, so that concatenation, *)
(* character removal and the selector [id$=...] are computed and not       *)
(* assumed.  A JavaScript value is a record [t, s, n]: t is its type.      *)
(***************************************************************************)
EXTENDS Integers, Sequences, FiniteSets, TLC

VARIABLES templates, document, ninst, nwrites, oidString

vars == <<templates, document, ninst, nwrites, oidString>>

----------------------------------------------------------------------------
(* Bounds *)

\* instantiations (clones appended to the document) in one behaviour
MaxInst == 2
\* writes through variable handles in one behaviour
MaxWrites == 1
\* length of the strings a caller has sanitized
MaxLen == 3

----------------------------------------------------------------------------
(* JavaScript values and strings *)

Str(s) == [t |-> "string", s |-> s, n |-> 0]
Num(n) == [t |-> "number", s |-> <<>>, n |-> n]
Undefined == [t |-> "undefined", s |-> <<>>, n |-> 0]
Null == [t |-> "null", s |-> <<>>, n |-> 0]

\* ToBoolean
Truthy(v) ==
    CASE v.t = "string" -> v.s # <<>>
      [] v.t = "number" -> v.n # 0
      [] v.t = "boolean" -> v.n # 0
      [] OTHER -> FALSE

\* true and false
Bool(x) == [t |-> "boolean", s |-> <<>>, n |-> IF x THEN 1 ELSE 0]

\* A value passed as a class name: a string, an array of strings, or
\* undefined.  It is also what dataset.trueclass and dataset.falseclass are.
ClassStr(s) == [t |-> "string", s |-> s, a |-> <<>>]
ClassList(a) == [t |-> "array", s |-> <<>>, a |-> a]
NoClass == [t |-> "undefined", s |-> <<>>, a |-> <<>>]

Digits == <<"0", "1", "2", "3", "4", "5", "6", "7", "8", "9">>

\* the decimal string of a number, as string concatenation cI + i produces it
RECURSIVE NumToStr(_)
NumToStr(i) ==
    IF i < 10 THEN <<Digits[i + 1]>>
    ELSE NumToStr(i \div 10) \o <<Digits[(i % 10) + 1]>>

EndsWith(s, suf) ==
    /\ Len(suf) <= Len(s)
    /\ SubSeq(s, Len(s) - Len(suf) + 1, Len(s)) = suf

\* the characters the character class of flattenObjectId names (the double
\* quote, the backslash and the backquote of the class are left out: the
\* model's alphabet Chars holds none of them)
ForbiddenChars ==
    {"!", "'", "#", "$", "^", "<", ">", "=", "?", "*", ".", "/",
     "]", "[", "{", "}", "~", "%", "&", "-", "(", ")", "+", " ", ",",
     ":", ";", "@", "|"}

RemoveChars(s, bad) == SelectSeq(s, LAMBDA c : c \notin bad)

\* replace without the flag g: the first run of forbidden characters only
flattenObjectId_firstRun(s) ==
    LET bad   == {i \in 1..Len(s) : s[i] \in ForbiddenChars}
        first == CHOOSE i \in bad : \A j \in bad : i <= j
        after == {i \in first..Len(s) : s[i] \notin ForbiddenChars}
        stop  == IF after = {} THEN Len(s) + 1
                 ELSE CHOOSE i \in after : \A j \in after : i <= j
    IN  IF bad = {} THEN s
        ELSE SubSeq(s, 1, first - 1) \o SubSeq(s, stop, Len(s))

\* objectid.replace(/[...]+/g, empty string): every forbidden character is removed
flattenObjectId(s) == RemoveChars(s, ForbiddenChars)

----------------------------------------------------------------------------
(* The host document *)

\* A node of a tree kept as a sequence in tree order: depth is the distance
\* to the fragment or container holding the sequence.  inst and pos name the
\* node itself (inst = 0: authored markup; inst = n: the n-th clone), owner,
\* oid and decl record where a cloned element came from; none of the four
\* is read by an operation.
Element(localName, id, depth, pos) ==
    [nodeType |-> "element", localName |-> localName, id |-> id,
     hasId |-> id # <<>>, depth |-> depth, title |-> <<>>,
     textContent |-> <<>>, value |-> Undefined,
     classList |-> {}, trueclass |-> NoClass, falseclass |-> NoClass,
     inst |-> 0, pos |-> pos, owner |-> <<>>, oid |-> <<>>, decl |-> id]

\* an element with data-trueclass and data-falseclass (NoClass: no such
\* attribute) and the classes of its class attribute
Styled(e, tcls, fcls, classes) ==
    [e EXCEPT !.trueclass = tcls, !.falseclass = fcls, !.classList = classes]

Text(depth, pos) ==
    [nodeType |-> "text", localName |-> "#text", id |-> <<>>,
     hasId |-> FALSE, depth |-> depth, title |-> <<>>,
     textContent |-> <<>>, value |-> Undefined,
     classList |-> {}, trueclass |-> NoClass, falseclass |-> NoClass,
     inst |-> 0, pos |-> pos, owner |-> <<>>, oid |-> <<>>, decl |-> <<>>]

\* The elements of the page that can hold children, in tree order:
\* <div id="t">, <div id="u"> and a <section> without an id.
PageNodes == <<"t", "u", "sec">>

NodeIdOf(node) ==
    CASE node = "t" -> <<"t">>
      [] node = "u" -> <<"u">>
      [] OTHER -> <<>>

NodeLocalName(node) == IF node = "sec" THEN "section" ELSE "div"

\* the parent of a page node: each of them is a child of <body>
NodeParent(node) == "body"

\* node && node.nodeType === Node.ELEMENT_NODE, for the values a caller passes
\* as a node: a page node, "null" or "#text"
IsElementNode(node) == node \in {"t", "u", "sec"}

\* The authored markup: the children of each page node.  A <template> keeps
\* its children in its content fragment (TemplateContent), outside the
\* document; the children of a <component> are in the document.
\*   <div id="t"> <template id="r">  <template id="s">  </div>
\*   <div id="u"> <component id="c">
\*                   <em id="z" data-trueclass="a"></em> </component> </div>
\*   <section>    <template id="n">  </section>
AuthoredChildren(node) ==
    CASE node = "t" -> << Element("template", <<"r">>, 0, 1),
                          Element("template", <<"s">>, 0, 2) >>
      [] node = "u" -> << Element("component", <<"c">>, 0, 3),
                          Styled(Element("em", <<"z">>, 1, 4),
                                 ClassStr(<<"a">>), NoClass, {}) >>
      [] OTHER      -> << Element("template", <<"n">>, 0, 5) >>

AuthoredDocument == [node \in {"t", "u", "sec"} |-> AuthoredChildren(node)]

\* A page with two tags whose ids differ by a "-" only, and a tag with an
\* "_" in its id:
\*   <div id="t"> <template id="r">  <template id="r-">  </div>
\*   <div id="u"> <component id="c"> <em id="z"></em> </component> </div>
\*   <section>    <template id="q_r">  </section>
CollidingPage ==
    [node \in {"t", "u", "sec"} |->
        CASE node = "t" -> << Element("template", <<"r">>, 0, 1),
                              Element("template", <<"r", "-">>, 0, 2) >>
          [] node = "u" -> << Element("component", <<"c">>, 0, 3),
                              Element("em", <<"z">>, 1, 4) >>
          [] OTHER      -> << Element("template", <<"q", "_", "r">>, 0, 5) >>]

\* A page with a tag whose id is empty and one whose id holds "-" and "_"
\* only:
\*   <div id="t"> <template id="">  <template id="r">  </div>
\*   <div id="u"> <component id="-_"> <em id="z"></em> </component> </div>
\*   <section>    <template id="s">  </section>
EmptyIdPage ==
    [node \in {"t", "u", "sec"} |->
        CASE node = "t" -> << [Element("template", <<>>, 0, 1) EXCEPT !.hasId = TRUE],
                              Element("template", <<"r">>, 0, 2) >>
          [] node = "u" -> << Element("component", <<"-", "_">>, 0, 3),
                              Element("em", <<"z">>, 1, 4) >>
          [] OTHER      -> << Element("template", <<"s">>, 0, 5) >>]

\* A page with a tag without an id attribute:
\*   <div id="t"> <template id="s">  <template id="r">  </div>
\*   <div id="u"> <component id="c"> <em id="z"></em> </component> </div>
\*   <section>    <template>  <template id="n">  </section>
MissingIdPage ==
    [node \in {"t", "u", "sec"} |->
        CASE node = "t" -> << Element("template", <<"s">>, 0, 1),
                              Element("template", <<"r">>, 0, 2) >>
          [] node = "u" -> << Element("component", <<"c">>, 0, 3),
                              Element("em", <<"z">>, 1, 4) >>
          [] OTHER      -> << Element("template", <<>>, 0, 5),
                              Element("template", <<"n">>, 0, 6) >>]

\* A page with a template whose markup declares the id "id", the name of an
\* accessor of ComponentBlock.prototype:
\*   <div id="t"> <template id="m">  </div>
\*   <div id="u"> <component id="c"> <em id="z"></em> </component> </div>
\*   <section>    <template id="s">  </section>
AccessorNamePage ==
    [node \in {"t", "u", "sec"} |->
        CASE node = "t" -> << Element("template", <<"m">>, 0, 1) >>
          [] node = "u" -> << Element("component", <<"c">>, 0, 2),
                              Element("em", <<"z">>, 1, 3) >>
          [] OTHER      -> << Element("template", <<"s">>, 0, 4) >>]

\* the pages a factory is constructed against
FactoryPages ==
    {AuthoredDocument, CollidingPage, EmptyIdPage, MissingIdPage,
     AccessorNamePage}

\* tag.content of the <template> with the given id attribute
\*   r: <p><span id="x" data-trueclass="a" data-falseclass="b"></span></p>
\*      text <b id="y" data-falseclass="b" class="b"></b> <i></i>
\*   s: <hr>
\*   n: <p id="w"></p> <b id="w_n_a"></b>
\*   r-: <b id="v"></b>          q_r: <p id="w"></p>
\*   m: <p id="id"></p> <b id="w"></b>
TemplateContent(id) ==
    CASE id = <<"r">> -> << Element("p", <<>>, 0, 1),
                            Styled(Element("span", <<"x">>, 1, 2),
                                   ClassStr(<<"a">>), ClassStr(<<"b">>), {}),
                            Text(0, 3),
                            Styled(Element("b", <<"y">>, 0, 4),
                                   NoClass, ClassStr(<<"b">>), { <<"b">> }),
                            Element("i", <<>>, 0, 5) >>
      [] id = <<"s">> -> << Element("hr", <<>>, 0, 1) >>
      [] id = <<"r", "-">> -> << Element("b", <<"v">>, 0, 1) >>
      [] id = <<"q", "_", "r">> -> << Element("p", <<"w">>, 0, 1) >>
      [] id = <<"m">> -> << Element("p", <<"i", "d">>, 0, 1),
                            Element("b", <<"w">>, 0, 2) >>
      [] OTHER        -> << Element("p", <<"w">>, 0, 1),
                            Element("b", <<"w", "_", "n", "_", "a">>, 0, 2) >>

\* document.querySelectorAll('template, component'): the tags in tree order,
\* each as the page node holding it and its index among the node's children
RECURSIVE TagsIn(_, _, _)
TagsIn(doc, node, i) ==
    IF i > Len(doc[node]) THEN <<>>
    ELSE (IF doc[node][i].localName \in {"template", "component"}
          THEN << [node |-> node, pos |-> doc[node][i].pos] >> ELSE <<>>)
         \o TagsIn(doc, node, i + 1)

RECURSIVE TagsFrom(_, _)
TagsFrom(doc, n) ==
    IF n > Len(PageNodes) THEN <<>>
    ELSE TagsIn(doc, PageNodes[n], 1) \o TagsFrom(doc, n + 1)

\* the index in doc[node] of the authored element pos
IndexOfPos(doc, node, pos) ==
    CHOOSE i \in 1..Len(doc[node]) : doc[node][i].inst = 0 /\ doc[node][i].pos = pos

\* the last index of the subtree whose root is at index i of the sequence
SubtreeEnd(seq, i) ==
    LET stops == {j \in (i + 1)..Len(seq) : seq[j].depth <= seq[i].depth}
    IN  IF stops = {} THEN Len(seq)
        ELSE (CHOOSE j \in stops : \A k \in stops : j <= k) - 1

\* every node of every page node, in tree order
RECURSIVE AllNodesFrom(_, _)
AllNodesFrom(doc, n) ==
    IF n > Len(PageNodes) THEN <<>>
    ELSE doc[PageNodes[n]] \o AllNodesFrom(doc, n + 1)

AllNodes(doc) == AllNodesFrom(doc, 1)

\* the elements among the nodes of a sequence
ElementsOf(seq) == SelectSeq(seq, LAMBDA e : e.nodeType = "element")

----------------------------------------------------------------------------
(* ComponentBlock *)

\* (tcls && tcls.length), for a value of the dataset
HasLength(c) == c.t = "string" /\ c.s # <<>>

\* function ComponentVar(tag, cBlock): the handle of the variable element
\* tag; block is left out, a handle is used with the block that holds it
ComponentVar(tag) ==
    [id  |-> tag.id,
     tag |-> tag.pos,
     boolClass |-> IF HasLength(tag.trueclass) \/ HasLength(tag.falseclass)
                   THEN [set |-> TRUE, true |-> tag.trueclass,
                         false |-> tag.falseclass]
                   ELSE [set |-> FALSE, true |-> NoClass, false |-> NoClass]]

\* function ComponentBlock(tag): the block of the tag at (node, pos), and the
\* document the constructor leaves.  The host has HTML5 templates: tag.content
\* is set for a <template> and absent for a <component>.  handles are the
\* ComponentVar objects the loop creates, in the order of variables; what
\* this[varid] = ... makes of each is in member.
ComponentBlock(doc, node, pos) ==
    LET i       == IndexOfPos(doc, node, pos)
        tag     == doc[node][i]
        last_   == SubtreeEnd(doc[node], i)
        isTmpl  == tag.localName = "template"
        \* the polyfill moves the children of the tag into a fragment
        moved   == [j \in 1..(last_ - i) |->
                      [doc[node][i + j] EXCEPT !.depth = @ - 1]]
        cFrag   == IF isTmpl THEN TemplateContent(tag.id) ELSE moved
        thevars == SelectSeq(cFrag, LAMBDA e : e.nodeType = "element" /\ e.hasId)
        \* tag.parentNode.id, or the id of the parent of a <tbody>
        tid     == IF NodeLocalName(node) = "tbody"
                   THEN NodeIdOf(NodeParent(node))
                   ELSE NodeIdOf(node)
        block   == [prefixid         |-> RemoveChars(tag.id, {" ", "-"}),
                    bTemplate        |-> isTmpl,
                    currentElementId |-> <<>>,
                    targetid         |-> tid,
                    targetElement    |-> IF tid # <<>> THEN node ELSE "null",
                    _targetElement   |-> "null",
                    variables        |-> [j \in 1..Len(thevars) |-> thevars[j].id],
                    handles          |-> [j \in 1..Len(thevars) |->
                                            ComponentVar(thevars[j])],
                    templateCode     |-> IF isTmpl THEN cFrag ELSE <<>>]
        \* tag.parentNode.replaceChild(cFrag, tag)
        spliced == SubSeq(doc[node], 1, i - 1) \o moved
                   \o SubSeq(doc[node], last_ + 1, Len(doc[node]))
    IN  [block    |-> block,
         document |-> IF isTmpl THEN doc ELSE [doc EXCEPT ![node] = spliced]]

\* prefix without the test of bTemplate
prefix_ofAny(b) ==
    <<"_">> \o b.prefixid \o <<"_">> \o b.currentElementId

\* ComponentBlock.prototype.prefix
prefix(b) ==
    IF b.bTemplate
    THEN <<"_">> \o b.prefixid \o <<"_">> \o b.currentElementId
    ELSE <<>>

\* document.querySelectorAll('[id$=' + p + ']'): an empty p is no selector.
\* The page nodes themselves are left out: the id of none ends with a suffix,
\* which starts with "_".
MatchSuffix(doc, p) ==
    SelectSeq(ElementsOf(AllNodes(doc)), LAMBDA e : e.hasId /\ EndsWith(e.id, p))

\* find without "this.currentElementId = oldId"
find_keepsProbe(b, doc, objectid) ==
    IF Truthy(objectid) /\ Len(b.variables) > 0
    THEN LET probe == [b EXCEPT !.currentElementId = flattenObjectId(objectid.s)]
             p     == prefix(probe)
             le    == MatchSuffix(doc, p)
         IN  IF p = <<>>
             THEN [block |-> probe, ret |-> Undefined, err |-> "SyntaxError"]
             ELSE [block |-> probe, ret |-> Num(Len(le)), err |-> ""]
    ELSE [block |-> b, ret |-> Undefined, err |-> ""]

\* ComponentBlock.prototype.find: the block it leaves, what it returns
\* (le && le.length) and the exception it throws, if any
find(b, doc, objectid) ==
    IF Truthy(objectid) /\ Len(b.variables) > 0
    THEN LET probe == [b EXCEPT !.currentElementId = flattenObjectId(objectid.s)]
             p     == prefix(probe)
             le    == MatchSuffix(doc, p)
         IN  IF p = <<>>
             THEN [block |-> probe, ret |-> Undefined, err |-> "SyntaxError"]
             ELSE IF Len(le) = 0
                  THEN [block |-> b, ret |-> Num(0), err |-> ""]
                  ELSE [block |-> probe, ret |-> Num(Len(le)), err |-> ""]
    ELSE [block |-> b, ret |-> Undefined, err |-> ""]

\* for (i; this.find(cI + i); i++);
RECURSIVE firstFree(_, _, _, _)
firstFree(b, doc, cI, i) ==
    IF Truthy(find(b, doc, Str(cI \o NumToStr(i))).ret)
    THEN firstFree(b, doc, cI, i + 1)
    ELSE i

\* ComponentBlock.prototype.calculateObjectID
calculateObjectID(b, doc) ==
    LET cI == b.currentElementId
    IN  IF Len(cI) = 0 \/ Truthy(find(b, doc, Str(cI)).ret)
        THEN [b EXCEPT !.currentElementId = cI \o NumToStr(firstFree(b, doc, cI, 0))]
        ELSE b

\* the number of direct child elements without an id before index i
RECURSIVE rootIndex(_, _)
rootIndex(frag, i) ==
    IF i <= 1 THEN 0
    ELSE rootIndex(frag, i - 1)
         + (IF /\ frag[i - 1].depth = 0
               /\ frag[i - 1].nodeType = "element"
               /\ frag[i - 1].id = <<>>
            THEN 1 ELSE 0)

\* ComponentBlock.prototype.initRootElements
initRootElements(b, frag) ==
    [i \in 1..Len(frag) |->
        IF frag[i].depth = 0 /\ frag[i].nodeType = "element" /\ frag[i].id = <<>>
        THEN [frag[i] EXCEPT !.id = NumToStr(rootIndex(frag, i)) \o prefix(b),
                             !.hasId = TRUE]
        ELSE frag[i]]

\* '#' + e is an id selector when e is an identifier: not empty, no digit first
IsIdent(e) == e # <<>> /\ \A j \in 1..Len(Digits) : e[1] # Digits[j]

\* frag.querySelector('#' + e): the index of the first element with that id, or 0
querySelectorId(frag, e) ==
    LET hits == {i \in 1..Len(frag) :
                    frag[i].nodeType = "element" /\ frag[i].hasId /\ frag[i].id = e}
    IN  IF hits = {} THEN 0 ELSE CHOOSE i \in hits : \A j \in hits : i <= j

\* ComponentBlock.prototype.initVariables, from the v-th variable on: the
\* fragment it leaves and the exception that stopped it, if any
RECURSIVE initVariablesFrom(_, _, _)
initVariablesFrom(b, frag, v) ==
    IF v > Len(b.variables) THEN [frag |-> frag, err |-> ""]
    ELSE LET e == b.variables[v]
             i == querySelectorId(frag, e)
         IN  IF ~IsIdent(e) THEN [frag |-> frag, err |-> "SyntaxError"]
             ELSE IF i = 0 THEN [frag |-> frag, err |-> "TypeError"]
             ELSE initVariablesFrom(b,
                     [frag EXCEPT ![i].id = e \o prefix(b)], v + 1)

initVariables(b, frag) == initVariablesFrom(b, frag, 1)

\* this.templateCode.cloneNode(true); the clone is the n-th one made
cloneNode(b, n) ==
    [i \in 1..Len(b.templateCode) |-> [b.templateCode[i] EXCEPT !.inst = n]]

\* appendTo without the test of node
appendTo_anyNode(b, doc, node, objectid, n) ==
    IF b.bTemplate
    THEN IF objectid.t # "string"
         THEN [block |-> b, document |-> doc, err |-> "TypeError"]
         ELSE LET b1 == [b EXCEPT !.currentElementId = flattenObjectId(objectid.s)]
                  b2 == calculateObjectID(b1, doc)
                  df == initVariables(b2, initRootElements(b2, cloneNode(b2, n)))
                  made == [i \in 1..Len(df.frag) |->
                             [df.frag[i] EXCEPT !.owner = b2.prefixid,
                                                !.oid = b2.currentElementId]]
              IN  IF df.err # ""
                  THEN [block |-> b2, document |-> doc, err |-> df.err]
                  ELSE IF ~IsElementNode(node)
                  THEN [block |-> b2, document |-> doc, err |-> "TypeError"]
                  ELSE [block    |-> [b2 EXCEPT !._targetElement = node],
                        document |-> [doc EXCEPT ![node] = @ \o made],
                        err      |-> ""]
    ELSE [block |-> b, document |-> doc, err |-> ""]

\* ComponentBlock.prototype.appendTo
appendTo(b, doc, node, objectid, n) ==
    IF b.bTemplate /\ IsElementNode(node)
    THEN IF objectid.t # "string"
         THEN \* flattenObjectId: objectid.replace is not a function
              [block |-> b, document |-> doc, err |-> "TypeError"]
         ELSE LET b1 == [b EXCEPT !.currentElementId = flattenObjectId(objectid.s)]
                  b2 == calculateObjectID(b1, doc)
                  df == initVariables(b2, initRootElements(b2, cloneNode(b2, n)))
                  \* owner and oid record the block and the id of the instance
                  made == [i \in 1..Len(df.frag) |->
                             [df.frag[i] EXCEPT !.owner = b2.prefixid,
                                                !.oid = b2.currentElementId]]
              IN  IF df.err # ""
                  THEN [block |-> b2, document |-> doc, err |-> df.err]
                  ELSE [block    |-> [b2 EXCEPT !._targetElement = node],
                        document |-> [doc EXCEPT ![node] = @ \o made],
                        err      |-> ""]
    ELSE [block |-> b, document |-> doc, err |-> ""]

\* document.getElementById(id): the page node with that id (no generated id,
\* which holds a "_", and no authored id of the markup is the id of a page
\* node)
getNodeById(id) ==
    LET hits == {j \in 1..Len(PageNodes) : NodeIdOf(PageNodes[j]) = id}
    IN  IF id = <<>> \/ hits = {} THEN "null"
        ELSE PageNodes[CHOOSE j \in hits : \A k \in hits : j <= k]

\* ComponentBlock.prototype.attach
attach(b, doc, objectid, n) ==
    IF b.bTemplate
    THEN appendTo(b, doc, getNodeById(b.targetid), objectid, n)
    ELSE [block |-> b, document |-> doc, err |-> ""]

\* the setter of id without its else branch
setId_keepsId(b, doc, value, n) ==
    IF value.t = "string" /\ Len(value.s) > 0
    THEN LET f == find(b, doc, value)
         IN  IF f.err # ""
             THEN [block |-> f.block, document |-> doc, err |-> f.err]
             ELSE IF ~Truthy(f.ret)
                  THEN attach(f.block, doc, value, n)
                  ELSE [block |-> f.block, document |-> doc, err |-> ""]
    ELSE [block |-> b, document |-> doc, err |-> ""]

\* the setter of ComponentBlock.prototype.id
setId(b, doc, value, n) ==
    IF value.t = "string" /\ Len(value.s) > 0
    THEN LET f == find(b, doc, value)
         IN  IF f.err # ""
             THEN [block |-> f.block, document |-> doc, err |-> f.err]
             ELSE IF ~Truthy(f.ret)
                  THEN attach(f.block, doc, value, n)
                  ELSE [block |-> f.block, document |-> doc, err |-> ""]
    ELSE [block |-> [b EXCEPT !.currentElementId = <<>>],
          document |-> doc, err |-> ""]

\* the getter of ComponentBlock.prototype.name
nameOf(b) == b.prefixid

\* this.getTargetElement(), which the getter of ComponentBlock.prototype.target
\* returns: the closure variable that only setTargetElement assigns
getTargetElement(b) == b.targetElement

\* the id of the parent of the node at index i of a page node's content
parentId(doc, node, i) ==
    LET e  == doc[node][i]
        up == {j \in 1..(i - 1) : doc[node][j].depth = e.depth - 1}
    IN  IF e.depth = 0 THEN NodeIdOf(node)
        ELSE doc[node][CHOOSE j \in up : \A k \in up : k <= j].id

\* the getter of ComponentBlock.prototype.root: the nodes of the list it
\* returns, each named by <<inst, pos>>, and the exception it throws, if any
root(b, doc) ==
    IF b.currentElementId = <<>> THEN [ret |-> <<>>, err |-> ""]
    ELSE LET t == b.targetElement
             p == prefix(b)
         IN  IF t = "null" THEN [ret |-> <<>>, err |-> "TypeError"]
             ELSE IF b.targetid = <<>> \/ p = <<>>
                  THEN [ret |-> <<>>, err |-> "SyntaxError"]
             ELSE LET hit(i) == /\ doc[t][i].nodeType = "element"
                                /\ doc[t][i].hasId
                                /\ EndsWith(doc[t][i].id, p)
                                /\ parentId(doc, t, i) = b.targetid
                      idx == SelectSeq([i \in 1..Len(doc[t]) |-> i], hit)
                  IN  [ret |-> [j \in 1..Len(idx) |->
                                  <<doc[t][idx[j]].inst, doc[t][idx[j]].pos>>],
                       err |-> ""]

\* the names ComponentBlock.prototype defines as accessors
AccessorNames ==
    { <<"i", "d">>, <<"n", "a", "m", "e">>, <<"t", "a", "r", "g", "e", "t">>,
      <<"r", "o", "o", "t">> }

\* block[v], after the loop "this[varid] = new ComponentVar(thevars[i], this)":
\* for the name of an accessor the assignment of the loop ran the setter (of
\* id, with an object without a length: currentElementId = ''; of target,
\* with an object that is no element: nothing) or, for name and root, which
\* have no setter, did nothing (the code is not strict), and the read runs
\* the getter; for another name the read returns the handle assigned last.
\* The markup of the model declares no id that is the name of a method or
\* of a field the constructor assigns.
member(b, doc, v) ==
    IF v = <<"i", "d">> THEN Str(b.currentElementId)
    ELSE IF v = <<"n", "a", "m", "e">> THEN Str(nameOf(b))
    ELSE IF v = <<"t", "a", "r", "g", "e", "t">>
    THEN [t |-> "node", node |-> getTargetElement(b)]
    ELSE IF v = <<"r", "o", "o", "t">>
    THEN [t |-> "array", list |-> root(b, doc)]
    ELSE LET js == {j \in 1..Len(b.variables) : b.variables[j] = v}
         IN  IF js = {} THEN Undefined
             ELSE [t |-> "ComponentVar",
                   h |-> b.handles[CHOOSE j \in js : \A i \in js : i <= j]]

----------------------------------------------------------------------------
(* ComponentVar *)

\* document.getElementById(id): where the first element with that id is
\* (the page node holding it and its index), node "null" when there is none
getElementById(doc, id) ==
    LET hitsIn(node) == {i \in 1..Len(doc[node]) :
                            /\ doc[node][i].nodeType = "element"
                            /\ doc[node][i].hasId
                            /\ doc[node][i].id = id}
        nodes == {j \in 1..Len(PageNodes) : hitsIn(PageNodes[j]) # {}}
        first == PageNodes[CHOOSE j \in nodes : \A k \in nodes : j <= k]
    IN  IF nodes = {} THEN [node |-> "null", i |-> 0]
        ELSE [node |-> first,
              i |-> CHOOSE i \in hitsIn(first) : \A k \in hitsIn(first) : i <= k]

\* the getter of ComponentVar.prototype.target, for the handle h of block b
target(b, h, doc) == getElementById(doc, h.id \o prefix(b))

\* ComponentVar.prototype.set
set(b, h, doc, data) ==
    LET t == target(b, h, doc)
    IN  IF t.node = "null" THEN [document |-> doc, err |-> "TypeError"]
        ELSE [document |-> [doc EXCEPT ![t.node][t.i].textContent = data,
                                       ![t.node][t.i].value = Str(data)],
              err |-> ""]

\* the setter of title that ComponentVar defines: tag.title = value || "",
\* where tag is the element the handle was constructed with: an element of
\* templateCode for a template, an element of the document for a component
setTitle(b, h, doc, value) ==
    LET inFrag == {i \in 1..Len(b.templateCode) : b.templateCode[i].pos = h.tag}
        inDoc(node) == {i \in 1..Len(doc[node]) :
                           doc[node][i].inst = 0 /\ doc[node][i].pos = h.tag}
    IN  IF b.bTemplate
        THEN [block |-> [b EXCEPT !.templateCode =
                            [i \in 1..Len(@) |->
                               IF i \in inFrag THEN [@[i] EXCEPT !.title = value]
                               ELSE @[i]]],
              document |-> doc]
        ELSE [block |-> b,
              document |-> [node \in DOMAIN doc |->
                              [i \in 1..Len(doc[node]) |->
                                 IF i \in inDoc(node)
                                 THEN [doc[node][i] EXCEPT !.title = value]
                                 ELSE doc[node][i]]]]

\* the getter of title that ComponentVar defines: return tag.title, of the
\* same tag
getTitle(b, h, doc) ==
    LET held == IF b.bTemplate THEN b.templateCode ELSE AllNodes(doc)
        hits == {i \in 1..Len(held) : held[i].inst = 0 /\ held[i].pos = h.tag}
    IN  held[CHOOSE i \in hits : TRUE].title

\* classname.split(' '): the pieces between single spaces, empty ones too
RECURSIVE Split(_)
Split(s) ==
    LET sp == {i \in 1..Len(s) : s[i] = " "}
        i  == CHOOSE j \in sp : \A k \in sp : j <= k
    IN  IF sp = {} THEN <<s>>
        ELSE <<SubSeq(s, 1, i - 1)>> \o Split(SubSeq(s, i + 1, Len(s)))

\* clst of setClass, removeClass and hasClass: the pieces of a string, the
\* elements of an array; for any other value clst stays undefined and the
\* for-in loop has nothing to visit
ClassTokens(classname) ==
    CASE classname.t = "string" -> Split(classname.s)
      [] classname.t = "array" -> classname.a
      [] OTHER -> <<>>

\* what classList.add and classList.remove throw for a token
TokenError(token) ==
    IF token = <<>> THEN "SyntaxError"
    ELSE IF \E i \in 1..Len(token) : token[i] = " " THEN "InvalidCharacterError"
    ELSE ""

\* the loop of setClass (adding) and of removeClass from the i-th token on:
\* the class list it leaves and the exception that stopped it, if any
RECURSIVE changeClassFrom(_, _, _, _)
changeClassFrom(classes, clst, i, adding) ==
    IF i > Len(clst) THEN [classList |-> classes, err |-> ""]
    ELSE IF TokenError(clst[i]) # ""
    THEN [classList |-> classes, err |-> TokenError(clst[i])]
    ELSE changeClassFrom(IF adding THEN classes \cup {clst[i]}
                         ELSE classes \ {clst[i]},
                         clst, i + 1, adding)

\* setClass (adding) and removeClass on the element the handle resolves to
changeClass(b, h, doc, classname, adding) ==
    LET t    == target(b, h, doc)
        clst == ClassTokens(classname)
        r    == changeClassFrom(doc[t.node][t.i].classList, clst, 1, adding)
    IN  IF Len(clst) = 0 THEN [document |-> doc, err |-> ""]
        ELSE IF t.node = "null" THEN [document |-> doc, err |-> "TypeError"]
        ELSE [document |-> [doc EXCEPT ![t.node][t.i].classList = r.classList],
              err |-> r.err]

\* ComponentVar.prototype.setClass
setClass(b, h, doc, classname) == changeClass(b, h, doc, classname, TRUE)

\* removeClass that stops after the first class
removeClass_firstOnly(b, h, doc, classname) ==
    IF Len(ClassTokens(classname)) = 0 THEN [document |-> doc, err |-> ""]
    ELSE changeClass(b, h, doc, ClassList(<<ClassTokens(classname)[1]>>), FALSE)

\* ComponentVar.prototype.removeClass
removeClass(b, h, doc, classname) == changeClass(b, h, doc, classname, FALSE)

\* the loop of hasClass from the i-th token on
RECURSIVE containsFrom(_, _, _)
containsFrom(classes, clst, i) ==
    IF i > Len(clst) THEN TRUE
    ELSE IF clst[i] \notin classes THEN FALSE
    ELSE containsFrom(classes, clst, i + 1)

\* hasClass that reports true as soon as one class is there
hasClass_anyOf(b, h, doc, classname) ==
    LET t    == target(b, h, doc)
        clst == ClassTokens(classname)
    IN  IF Len(clst) = 0 THEN [ret |-> TRUE, err |-> ""]
        ELSE IF t.node = "null" THEN [ret |-> FALSE, err |-> "TypeError"]
        ELSE [ret |-> \E i \in 1..Len(clst) :
                         clst[i] \in doc[t.node][t.i].classList,
              err |-> ""]

\* ComponentVar.prototype.hasClass
hasClass(b, h, doc, classname) ==
    LET t    == target(b, h, doc)
        clst == ClassTokens(classname)
    IN  IF Len(clst) = 0 THEN [ret |-> TRUE, err |-> ""]
        ELSE IF t.node = "null" THEN [ret |-> FALSE, err |-> "TypeError"]
        ELSE [ret |-> containsFrom(doc[t.node][t.i].classList, clst, 1),
              err |-> ""]

\* ComponentVar.prototype.choose
choose(b, h, doc, bValue) ==
    LET add == IF bValue THEN h.boolClass.true ELSE h.boolClass.false
        rem == IF bValue THEN h.boolClass.false ELSE h.boolClass.true
        r1  == IF HasLength(rem) THEN removeClass(b, h, doc, rem)
               ELSE [document |-> doc, err |-> ""]
    IN  IF ~h.boolClass.set THEN [document |-> doc, err |-> ""]
        ELSE IF r1.err # "" THEN r1
        ELSE IF HasLength(add) THEN setClass(b, h, r1.document, add)
        ELSE r1

\* ComponentVar.prototype.which: this.boolClass && (hasClass(true class) ||
\* !hasClass(false class)); without boolClass it returns undefined
which(b, h, doc) ==
    LET ht == hasClass(b, h, doc, h.boolClass.true)
        hf == hasClass(b, h, doc, h.boolClass.false)
    IN  IF ~h.boolClass.set THEN [ret |-> Undefined, err |-> ""]
        ELSE IF ht.err # "" THEN [ret |-> Undefined, err |-> ht.err]
        ELSE IF ht.ret THEN [ret |-> Bool(TRUE), err |-> ""]
        ELSE IF hf.err # "" THEN [ret |-> Undefined, err |-> hf.err]
        ELSE [ret |-> Bool(~hf.ret), err |-> ""]

----------------------------------------------------------------------------
(* TemplateFactory *)

\* the loop of function TemplateFactory() from the i-th tag on: getAttribute
\* returns null for a tag without an id attribute, and null.replace throws
RECURSIVE buildFrom(_, _, _)
buildFrom(tags, i, st) ==
    IF i > Len(tags) THEN st
    ELSE LET node == tags[i].node
             tag  == st.document[node][IndexOfPos(st.document, node, tags[i].pos)]
             id   == RemoveChars(tag.id, {" ", "_", "-"})
             cb   == ComponentBlock(st.document, node, tags[i].pos)
         IN  IF ~tag.hasId
             THEN [st EXCEPT !.err = "TypeError"]
             ELSE IF id # <<>>
             THEN buildFrom(tags, i + 1,
                     [templates |-> (id :> cb.block) @@ st.templates,
                      document  |-> cb.document,
                      err       |-> ""])
             ELSE buildFrom(tags, i + 1, st)

\* function TemplateFactory(): this.templates, the document it leaves and
\* the exception it throws, if any
TemplateFactory(doc) ==
    buildFrom(TagsFrom(doc, 1), 1,
              [templates |-> <<>>, document |-> doc, err |-> ""])

\* the names an object literal inherits from Object.prototype (two of them)
ObjectPrototypeNames ==
    { <<"c", "o", "n", "s", "t", "r", "u", "c", "t", "o", "r">>,
      <<"t", "o", "S", "t", "r", "i", "n", "g">> }

\* TemplateFactory.prototype.getTemplate: this.templates[name], where
\* this.templates is an object literal: a name it does not hold itself is
\* looked up in Object.prototype
getTemplate(ts, name) ==
    IF name \in DOMAIN ts THEN [t |-> "ComponentBlock", block |-> ts[name]]
    ELSE IF name \in ObjectPrototypeNames THEN [t |-> "function"]
    ELSE [t |-> "undefined"]

\* getTargetTemplate that returns the mapping for a single match as well
getTargetTemplate_alwaysMap(ts, targetid) ==
    LET k == {key \in DOMAIN ts : ts[key].targetid = targetid}
    IN  IF Cardinality(k) > 0
        THEN [t |-> "Object", result |-> [key \in k |-> ts[key]]]
        ELSE [t |-> "undefined"]

\* TemplateFactory.prototype.getTargetTemplate
getTargetTemplate(ts, targetid) ==
    LET k == {key \in DOMAIN ts : ts[key].targetid = targetid}
    IN  IF Cardinality(k) > 1
        THEN [t |-> "Object", result |-> [key \in k |-> ts[key]]]
        ELSE IF Cardinality(k) > 0
        THEN [t |-> "ComponentBlock", block |-> ts[CHOOSE key \in k : TRUE]]
        ELSE [t |-> "undefined"]

----------------------------------------------------------------------------
(* The callers *)

\* The object ids a caller passes: the empty one, one that holds a forbidden
\* character, one made of forbidden characters only, one that holds "_", and
\* the ids the counter of calculateObjectID makes.
ObjectIds ==
    { <<>>, <<"a", "-">>, <<"-">>, <<"b", "_", "r", "_", "a">>,
      <<"0">>, <<"a", "0">> }

\* every value a caller can pass as an object id or assign to id
ObjectIdArgs == {Str(o) : o \in ObjectIds} \cup {Undefined, Null}

\* the values the calls of a behaviour pass (the calls with the other values
\* of ObjectIdArgs change nothing or act as one of these)
SetIdArgs == {Str(<<>>), Str(<<"a", "-">>), Str(<<"-">>),
              Str(<<"b", "_", "r", "_", "a">>)}
AttachArgs == {Str(<<>>), Str(<<"a", "-">>), Str(<<"b", "_", "r", "_", "a">>)}
AppendToArgs == {Str(<<"a", "-">>)}
FindArgs == {Str(<<"a", "-">>), Str(<<"b", "_", "r", "_", "a">>), Str(<<"0">>)}

\* the nodes the calls of a behaviour pass to appendTo
AppendToNodes == {"t", "u"}

\* what a caller writes through a variable handle
DataValues == { <<"h">> }

Init ==
    /\ templates = TemplateFactory(AuthoredDocument).templates
    /\ document = TemplateFactory(AuthoredDocument).document
    /\ ninst = 0
    /\ nwrites = 0
    /\ oidString = <<>>

\* the step of a call that leaves block r and document d
Leaves(k, r, d) ==
    /\ d # document => ninst < MaxInst
    /\ templates' = [templates EXCEPT ![k] = r]
    /\ document' = d
    /\ ninst' = IF d # document THEN ninst + 1 ELSE ninst
    /\ UNCHANGED <<nwrites, oidString>>

\* block.id = value
SetId(k, value) ==
    LET r == setId(templates[k], document, value, ninst + 1)
    IN  Leaves(k, r.block, r.document)

\* block.attach(objectid)
Attach(k, objectid) ==
    LET r == attach(templates[k], document, objectid, ninst + 1)
    IN  Leaves(k, r.block, r.document)

\* block.appendTo(node, objectid)
AppendTo(k, node, objectid) ==
    LET r == appendTo(templates[k], document, node, objectid, ninst + 1)
    IN  Leaves(k, r.block, r.document)

\* block.find(objectid)
Find(k, objectid) ==
    LET r == find(templates[k], document, objectid)
    IN  Leaves(k, r.block, document)

\* block.root
Root(k) ==
    /\ root(templates[k], document).err \in {"", "TypeError", "SyntaxError"}
    /\ UNCHANGED vars

\* block[v].text = data
VarSet(k, v, data) ==
    LET r == set(templates[k], templates[k].handles[v], document, data)
    IN  /\ nwrites < MaxWrites
        /\ document' = r.document
        /\ nwrites' = nwrites + 1
        /\ UNCHANGED <<templates, ninst, oidString>>

\* block[v].title = value
VarSetTitle(k, v, value) ==
    LET r == setTitle(templates[k], templates[k].handles[v], document, value)
    IN  /\ nwrites < MaxWrites
        /\ templates' = [templates EXCEPT ![k] = r.block]
        /\ document' = r.document
        /\ nwrites' = nwrites + 1
        /\ UNCHANGED <<ninst, oidString>>

\* the calls on blocks
Next ==
    \/ \E k \in DOMAIN templates, value \in SetIdArgs : SetId(k, value)
    \/ \E k \in DOMAIN templates, o \in AttachArgs : Attach(k, o)
    \/ \E k \in DOMAIN templates, node \in AppendToNodes, o \in AppendToArgs :
          AppendTo(k, node, o)
    \/ \E k \in DOMAIN templates, o \in FindArgs : Find(k, o)
    \/ \E k \in DOMAIN templates : Root(k)

Spec == Init /\ [][Next]_vars

\* the calls on blocks and on their variable handles
NextVar ==
    \/ \E k \in DOMAIN templates, o \in AppendToArgs : Attach(k, o)
    \/ \E k \in DOMAIN templates, value \in SetIdArgs : SetId(k, value)
    \/ \E k \in DOMAIN templates : \E v \in 1..Len(templates[k].handles) :
          \E data \in DataValues : VarSet(k, v, data)
    \/ \E k \in DOMAIN templates : \E v \in 1..Len(templates[k].handles) :
          \E value \in DataValues : VarSetTitle(k, v, value)

SpecVar == Init /\ [][NextVar]_vars

\* the class names the calls of a behaviour pass
SetClassArgs ==
    {ClassStr(<<"a">>), ClassStr(<<"a", " ", "b">>), ClassList(<< <<"b">> >>)}
RemoveClassArgs == {ClassStr(<<"b">>)}

\* block[v].setClass(classname)
VarSetClass(k, v, classname) ==
    LET r == setClass(templates[k], templates[k].handles[v], document, classname)
    IN  /\ nwrites < MaxWrites
        /\ document' = r.document
        /\ nwrites' = nwrites + 1
        /\ UNCHANGED <<templates, ninst, oidString>>

\* block[v].removeClass(classname)
VarRemoveClass(k, v, classname) ==
    LET r == removeClass(templates[k], templates[k].handles[v], document, classname)
    IN  /\ nwrites < MaxWrites
        /\ document' = r.document
        /\ nwrites' = nwrites + 1
        /\ UNCHANGED <<templates, ninst, oidString>>

\* block[v].choose(bValue)
VarChoose(k, v, bValue) ==
    LET r == choose(templates[k], templates[k].handles[v], document, bValue)
    IN  /\ nwrites < MaxWrites
        /\ document' = r.document
        /\ nwrites' = nwrites + 1
        /\ UNCHANGED <<templates, ninst, oidString>>

\* the calls that make instances and the calls on the classes of their
\* variable elements
NextClass ==
    \/ \E k \in DOMAIN templates, o \in AttachArgs :
          Len(templates[k].handles) > 0 /\ Attach(k, o)
    \/ \E k \in DOMAIN templates : \E v \in 1..Len(templates[k].handles) :
          \E c \in SetClassArgs : VarSetClass(k, v, c)
    \/ \E k \in DOMAIN templates : \E v \in 1..Len(templates[k].handles) :
          \E c \in RemoveClassArgs : VarRemoveClass(k, v, c)
    \/ \E k \in DOMAIN templates : \E v \in 1..Len(templates[k].handles) :
          \E bValue \in BOOLEAN : VarChoose(k, v, bValue)

SpecClass == Init /\ [][NextClass]_vars

\* the characters of the strings a caller sanitizes
Alphabet == {"a", "0", "_", "-", " ", "#"}

\* a string a caller holds, before any factory is constructed
InitSanitizer ==
    /\ oidString \in UNION {[1..n -> Alphabet] : n \in 0..MaxLen}
    /\ templates = <<>>
    /\ document = AuthoredDocument
    /\ ninst = 0
    /\ nwrites = 0

\* oidString = flattenObjectId(oidString)
Flatten ==
    /\ oidString' = flattenObjectId(oidString)
    /\ UNCHANGED <<templates, document, ninst, nwrites>>

SpecSanitizer == InitSanitizer /\ [][Flatten]_vars

\* a page before its factory is constructed
InitFactory ==
    /\ document \in FactoryPages
    /\ templates = <<>>
    /\ ninst = 0
    /\ nwrites = 0
    /\ oidString = <<>>

\* new TemplateFactory(): when the constructor throws there is no factory
Construct ==
    LET f == TemplateFactory(document)
    IN  /\ templates = <<>>
        /\ templates' = IF f.err = "" THEN f.templates ELSE <<>>
        /\ document' = f.document
        /\ UNCHANGED <<ninst, nwrites, oidString>>

\* the construction of the factory and calls on its blocks
NextFactory ==
    \/ Construct
    \/ \E k \in DOMAIN templates, o \in AttachArgs : Attach(k, o)
    \/ \E k \in DOMAIN templates, value \in {Str(<<>>), Str(<<"a", "-">>)} :
          SetId(k, value)

SpecFactory == InitFactory /\ [][NextFactory]_vars

----------------------------------------------------------------------------
(* Instances: what the document holds of the clones made so far *)

LiveNodes == AllNodes(document)

\* the clones in the document
Instances == {LiveNodes[i].inst : i \in 1..Len(LiveNodes)} \ {0}

NodesOf(n) == SelectSeq(LiveNodes, LAMBDA e : e.inst = n)

OwnerOf(n) == NodesOf(n)[1].owner
OidOf(n) == NodesOf(n)[1].oid

\* the ids of the elements of clone n
IdsOf(n) ==
    {NodesOf(n)[i].id : i \in {j \in 1..Len(NodesOf(n)) :
                                 NodesOf(n)[j].nodeType = "element" /\ NodesOf(n)[j].hasId}}

\* the block named name has an instance with object id oid in the document
HasInstance(name, oid) ==
    \E n \in Instances : OwnerOf(n) = name /\ OidOf(n) = oid

\* the first number i >= 0 with no instance cI + i of the block
RECURSIVE firstUnused(_, _, _)
firstUnused(name, cI, i) ==
    IF HasInstance(name, cI \o NumToStr(i)) THEN firstUnused(name, cI, i + 1) ELSE i

Blocks == DOMAIN templates
TemplateBlocks == {k \in Blocks : templates[k].bTemplate}

\* the object ids that are strings
StringArgs == {o \in ObjectIdArgs : o.t = "string"}

Range(seq) == {seq[i] : i \in 1..Len(seq)}

\* the document d holds the document plus one clone, appended to node
OneInstanceMore(d, node) ==
    /\ \A m \in DOMAIN d : m # node => d[m] = document[m]
    /\ Len(d[node]) > Len(document[node])
    /\ SubSeq(d[node], 1, Len(document[node])) = document[node]
    /\ \A i \in (Len(document[node]) + 1)..Len(d[node]) : d[node][i].inst = ninst + 1

----------------------------------------------------------------------------
(* Claims *)

\* C1: at most one live instance of a definition exists per object id: no
\* two clones in the document that were made from the same definition
\* adopted the same currentElementId.
C1_OneInstancePerObjectId ==
    \A n1, n2 \in Instances :
        (OwnerOf(n1) = OwnerOf(n2) /\ OidOf(n1) = OidOf(n2)) => n1 = n2

\* C2: two instances of a definition with different object ids share no
\* element id, and the root list read with the one active (activated by
\* find) shares no node with the root list read with the other active.
C2_DisjointInstances ==
    \A k \in TemplateBlocks : \A n1, n2 \in Instances :
        ( /\ OwnerOf(n1) = templates[k].prefixid
          /\ OwnerOf(n2) = templates[k].prefixid
          /\ OidOf(n1) # OidOf(n2) )
        => LET f1 == find(templates[k], document, Str(OidOf(n1)))
               f2 == find(templates[k], document, Str(OidOf(n2)))
           IN  /\ IdsOf(n1) \cap IdsOf(n2) = {}
               /\ (Truthy(f1.ret) /\ Truthy(f2.ret))
                  => Range(root(f1.block, document).ret)
                       \cap Range(root(f2.block, document).ret) = {}

\* C3: assigning a non-empty v to id when an instance with object id
\* sanitize(v) exists leaves the document as it is, and id is sanitize(v)
\* afterwards.
C3_SetIdOfExistingInstance ==
    \A k \in Blocks : \A v \in StringArgs :
        (Truthy(v) /\ HasInstance(templates[k].prefixid, flattenObjectId(v.s)))
        => LET r == setId(templates[k], document, v, ninst + 1)
           IN  /\ r.document = document
               /\ r.block.currentElementId = flattenObjectId(v.s)

\* C4: assigning v to id of a template whose declared target container is in
\* the document, when v has a non-empty sanitized form and no instance with
\* object id sanitize(v) exists, puts exactly one new instance into the
\* container, and id is sanitize(v) afterwards.
C4_SetIdCreatesInstance ==
    \A k \in TemplateBlocks : \A v \in StringArgs :
        ( /\ getNodeById(templates[k].targetid) # "null"
          /\ flattenObjectId(v.s) # <<>>
          /\ ~HasInstance(templates[k].prefixid, flattenObjectId(v.s)) )
        => LET r == setId(templates[k], document, v, ninst + 1)
           IN  /\ OneInstanceMore(r.document, getNodeById(templates[k].targetid))
               /\ r.block.currentElementId = flattenObjectId(v.s)

\* C5: an instance made by appendTo or attach with an object id o whose
\* sanitized form is not empty adopts sanitize(o) when no instance has that
\* id, and otherwise sanitize(o) followed by the first integer i >= 0 for
\* which no instance has the id sanitize(o) + i.
C5_AdoptedObjectId ==
    \A k \in TemplateBlocks : \A o \in StringArgs : \A node \in AppendToNodes :
        LET san  == flattenObjectId(o.s)
            name == templates[k].prefixid
            r    == appendTo(templates[k], document, node, o, ninst + 1)
            a    == attach(templates[k], document, o, ninst + 1)
            id   == IF HasInstance(name, san)
                    THEN san \o NumToStr(firstUnused(name, san, 0))
                    ELSE san
        IN  san # <<>>
            => /\ r.document # document => r.block.currentElementId = id
               /\ a.document # document => a.block.currentElementId = id

\* C6: instantiating a template with no object id (absent or empty) raises
\* no error, and the instance adopts the first unused integer: "0", then
\* "1", ...
C6_AutoObjectId ==
    \A k \in TemplateBlocks : \A o \in {Undefined, Str(<<>>)} :
        \A node \in AppendToNodes :
            LET r == appendTo(templates[k], document, node, o, ninst + 1)
            IN  /\ r.err = ""
                /\ OneInstanceMore(r.document, node)
                /\ r.block.currentElementId
                      = NumToStr(firstUnused(templates[k].prefixid, <<>>, 0))

\* C7: a call find(o) that reports false leaves currentElementId as it was
\* (find has no effect but on currentElementId: it only reads the document);
\* a call that reports true leaves currentElementId = sanitize(o).
C7_FindFrame ==
    \A k \in Blocks : \A o \in ObjectIdArgs :
        LET r == find(templates[k], document, o)
        IN  /\ (r.err = "" /\ ~Truthy(r.ret))
               => r.block = templates[k]
            /\ Truthy(r.ret)
               => /\ r.block.currentElementId = flattenObjectId(o.s)
                  /\ r.block = [templates[k] EXCEPT
                                   !.currentElementId = flattenObjectId(o.s)]

\* C7, its case: some find reports false on a block whose active id is
\* neither empty nor the probed one, and some find of an existing instance
\* reports true and changes the active id.
C7_Witness ==
    /\ \E k \in Blocks : \E o \in StringArgs :
          LET r == find(templates[k], document, o)
          IN  /\ Truthy(o) /\ Len(templates[k].variables) > 0
              /\ r.err = "" /\ ~Truthy(r.ret)
              /\ templates[k].currentElementId # <<>>
              /\ templates[k].currentElementId # flattenObjectId(o.s)
    /\ \E k \in Blocks : \E o \in StringArgs :
          LET r == find(templates[k], document, o)
          IN  /\ Truthy(r.ret)
              /\ HasInstance(templates[k].prefixid, flattenObjectId(o.s))
              /\ templates[k].currentElementId # flattenObjectId(o.s)

\* C8: for an object id o of an existing instance, find(o) called twice in
\* a row reports true both times and leaves the same currentElementId.
C8_FindTwice ==
    \A k \in Blocks : \A n \in Instances :
        OwnerOf(n) = templates[k].prefixid
        => LET f1 == find(templates[k], document, Str(OidOf(n)))
               f2 == find(f1.block, document, Str(OidOf(n)))
           IN  /\ Truthy(f1.ret)
               /\ Truthy(f2.ret)
               /\ f2.block.currentElementId = f1.block.currentElementId

\* C9: in every instance, an element declared with id v carries the id
\* v_<definitionName>_<objectId>, and the k-th direct child element declared
\* without an id carries k_<definitionName>_<objectId>.
C9_GeneratedIds ==
    \A n \in Instances : \A i \in 1..Len(NodesOf(n)) :
        LET e      == NodesOf(n)[i]
            suffix == <<"_">> \o e.owner \o <<"_">> \o e.oid
            before == {j \in 1..(i - 1) :
                          /\ NodesOf(n)[j].nodeType = "element"
                          /\ NodesOf(n)[j].depth = 0
                          /\ NodesOf(n)[j].decl = <<>>}
        IN  e.nodeType = "element"
            => /\ e.decl # <<>> => e.id = e.decl \o suffix
               /\ (e.decl = <<>> /\ e.depth = 0)
                  => e.id = NumToStr(Cardinality(before)) \o suffix

\* C10: the static markup of a template is never changed: a new clone has
\* the content of a clone taken right after the factory was constructed.
C10_StaticMarkupKept ==
    \A k \in TemplateBlocks :
        cloneNode(templates[k], ninst + 1)
          = cloneNode(TemplateFactory(AuthoredDocument).templates[k], ninst + 1)

\* C11: a write through the passthrough property title of a handle lands on
\* the live element of the active instance (the element whose id is the
\* variable name followed by the current suffix of the owning block), and a
\* read returns the title of that element.
C11_PassthroughOnLiveElement ==
    \A k \in Blocks : \A v \in 1..Len(templates[k].handles) :
        \A value \in DataValues :
            LET h == templates[k].handles[v]
                t == target(templates[k], h, document)
                w == setTitle(templates[k], h, document, value)
            IN  t.node # "null"
                => /\ w.document[t.node][t.i].title = value
                   /\ getTitle(templates[k], h, document)
                         = document[t.node][t.i].title
                   /\ getTitle(w.block, h, w.document)
                         = w.document[t.node][t.i].title

\* C12: on a component, attach, appendTo and the assignment of a non-empty
\* value to id raise no error, leave the document as it is and leave
\* currentElementId as it is.
C12_ComponentOpsAreNoOps ==
    \A k \in Blocks \ TemplateBlocks : \A o \in StringArgs :
        \A node \in AppendToNodes :
            LET b == templates[k]
                a == attach(b, document, o, ninst + 1)
                p == appendTo(b, document, node, o, ninst + 1)
                s == setId(b, document, o, ninst + 1)
                same(r) == /\ r.err = ""
                           /\ r.document = document
                           /\ r.block.currentElementId = b.currentElementId
            IN  /\ same(a)
                /\ same(p)
                /\ Truthy(o) => same(s)

\* what a caller passes to appendTo for a node that is absent or no element
NoElementNodes == {"null", "#text"}

\* ids that no element of the page carries
AbsentIds == { <<"q">> }

\* C13: appendTo with a node that is absent or not an element, and attach
\* of a block whose declared target container id is empty or the id of no
\* element of the document, leave the document and the block (so its
\* currentElementId and its target) as they are.
C13_NoContainerNoInstance ==
    \A k \in Blocks : \A o \in ObjectIdArgs :
        /\ \A node \in NoElementNodes :
              LET r == appendTo(templates[k], document, node, o, ninst + 1)
              IN  r.document = document /\ r.block = templates[k]
        /\ \A tid \in {templates[k].targetid} \cup AbsentIds :
              LET b == [templates[k] EXCEPT !.targetid = tid]
                  r == attach(b, document, o, ninst + 1)
              IN  getNodeById(tid) = "null"
                  => r.document = document /\ r.block = b

\* C13, its case: a template without a declared target container has an
\* active instance (made by appendTo), and a template with a target set by
\* the constructor has one as well.
C13_Witness ==
    /\ \E k \in TemplateBlocks :
          /\ templates[k].targetid = <<>>
          /\ templates[k].currentElementId # <<>>
          /\ HasInstance(templates[k].prefixid, templates[k].currentElementId)
    /\ \E k \in TemplateBlocks :
          /\ templates[k].targetElement # "null"
          /\ templates[k].currentElementId # <<>>

\* C14: the assignment of the empty string, null or undefined to id sets
\* currentElementId to the empty string, raises no error and changes
\* nothing else: the document and the rest of the block stay as they are.
C14_EmptyIdResets ==
    \A k \in Blocks : \A v \in {Str(<<>>), Null, Undefined} :
        LET r == setId(templates[k], document, v, ninst + 1)
        IN  /\ r.err = ""
            /\ r.document = document
            /\ r.block = [templates[k] EXCEPT !.currentElementId = <<>>]

\* C14, its case: a block with an active instance in the document.
C14_Witness ==
    \E k \in Blocks : \E n \in Instances :
        /\ OwnerOf(n) = templates[k].prefixid
        /\ OidOf(n) = templates[k].currentElementId
        /\ ninst = MaxInst

----------------------------------------------------------------------------
(* Claims about the factory *)

\* the template and component tags of a page, in document order
TagsOf(d) ==
    LET tags == TagsFrom(d, 1)
    IN  [i \in 1..Len(tags) |->
            [node |-> tags[i].node, pos |-> tags[i].pos,
             tag |-> d[tags[i].node][IndexOfPos(d, tags[i].node, tags[i].pos)]]]

\* the declared id without white space, "_" and "-"
SanitizedId(tag) == RemoveChars(tag.id, {" ", "_", "-"})

\* the tags whose sanitized declared id is name
TagsNamed(d, name) ==
    {i \in 1..Len(TagsOf(d)) :
        TagsOf(d)[i].tag.hasId /\ SanitizedId(TagsOf(d)[i].tag) = name}

\* the last of them
LastTagNamed(d, name) ==
    TagsOf(d)[CHOOSE i \in TagsNamed(d, name) : \A j \in TagsNamed(d, name) : j <= i]

\* no factory has been constructed for the page
NoFactory == templates = <<>>

\* C15: the construction of a factory raises no error, and it registers a
\* block for exactly the tags whose declared id is present and not empty
\* after sanitization: a tag with a missing, empty or sanitized-to-empty id
\* is skipped and every other tag is registered.
C15_BadIdsSkipped ==
    NoFactory
    => LET f == TemplateFactory(document)
       IN  /\ f.err = ""
           /\ DOMAIN f.templates
                 = {name \in {SanitizedId(TagsOf(document)[i].tag) :
                                 i \in 1..Len(TagsOf(document))} :
                       name # <<>> /\ TagsNamed(document, name) # {}}

\* the names a caller asks the factory for
NameArgs ==
    { <<"r">>, <<"s">>, <<"c">>, <<"n">>, <<"q", "r">>, <<"q", "_", "r">>,
      <<"r", "-">>, <<"z">>, <<>> } \cup ObjectPrototypeNames

\* C16: getTemplate(name) returns the block built from the last tag in
\* document order whose sanitized declared id is name, and undefined when
\* no tag has that sanitized id.
C16_GetTemplateLastWins ==
    (NoFactory /\ TemplateFactory(document).err = "")
    => \A name \in NameArgs :
          LET f == TemplateFactory(document)
              g == getTemplate(f.templates, name)
          IN  IF name = <<>> \/ TagsNamed(document, name) = {}
              THEN g.t = "undefined"
              ELSE /\ g.t = "ComponentBlock"
                   /\ g.block = ComponentBlock(document,
                                    LastTagNamed(document, name).node,
                                    LastTagNamed(document, name).pos).block

\* the container ids a caller asks the factory for
TargetIdArgs == { <<"t">>, <<"u">>, <<>>, <<"q">> }

\* the id of the container a tag is declared in
DeclaredTarget(tg) ==
    IF NodeLocalName(tg.node) = "tbody" THEN NodeIdOf(NodeParent(tg.node))
    ELSE NodeIdOf(tg.node)

\* what getTargetTemplate is to return for the blocks ts when the names in
\* m are those of the blocks declared in the container asked for
IsTargetResult(g, ts, m) ==
    /\ m = {} => g.t = "undefined"
    /\ Cardinality(m) = 1
       => g.t = "ComponentBlock" /\ \A k \in m : g.block = ts[k]
    /\ Cardinality(m) >= 2
       => /\ g.t = "Object"
          /\ DOMAIN g.result = m
          /\ \A k \in m : g.result[k] = ts[k]

\* C17: getTargetTemplate(targetId) returns the block itself when exactly
\* one registered block is declared in the container with that id, a
\* mapping from name to block holding all of them when there are two or
\* more, and undefined when there is none.
C17_GetTargetTemplate ==
    \A tid \in TargetIdArgs :
        /\ IsTargetResult(getTargetTemplate(templates, tid), templates,
                          {k \in Blocks : templates[k].targetid = tid})
        /\ (NoFactory /\ TemplateFactory(document).err = "")
           => LET ts == TemplateFactory(document).templates
              IN  IsTargetResult(getTargetTemplate(ts, tid), ts,
                     {k \in DOMAIN ts :
                         DeclaredTarget(LastTagNamed(document, k)) = tid})

\* C17, its case: a factory with two blocks declared in one container and a
\* single block declared in another, after an instance was made.
C17_Witness ==
    /\ ninst > 0
    /\ \E tid \in TargetIdArgs :
          Cardinality({k \in Blocks : templates[k].targetid = tid}) >= 2
    /\ \E tid \in TargetIdArgs :
          Cardinality({k \in Blocks : templates[k].targetid = tid}) = 1

\* the component tags of a page that the factory builds a block of
BuiltComponent(e) ==
    e.localName = "component" /\ e.hasId /\ SanitizedId(e) # <<>>

\* the document f is the page d with every built component tag replaced by
\* its children: the other nodes in their order, each as it was, one level
\* up for each built component it was in
IsSpliced(f, d) ==
    \A node \in DOMAIN d :
        LET kept == SelectSeq(d[node], LAMBDA e : ~BuiltComponent(e))
        IN  /\ Len(f[node]) = Len(kept)
            /\ \A i \in 1..Len(kept) :
                  LET j == IndexOfPos(d, node, kept[i].pos)
                      around == {c \in 1..(j - 1) :
                                    /\ BuiltComponent(d[node][c])
                                    /\ j <= SubtreeEnd(d[node], c)}
                  IN  f[node][i]
                        = [kept[i] EXCEPT !.depth = @ - Cardinality(around)]

\* every handle of every component among the blocks ts resolves in the
\* document f to an element with the declared id of the variable, for the
\* current and for other values of currentElementId
ComponentHandlesResolve(ts, f) ==
    \A k \in DOMAIN ts : \A v \in 1..Len(ts[k].handles) :
        \A cur \in {ts[k].currentElementId, <<>>, <<"a">>} :
            LET b == [ts[k] EXCEPT !.currentElementId = cur]
                t == target(b, ts[k].handles[v], f)
            IN  ~ts[k].bTemplate
                => /\ t.node # "null"
                   /\ f[t.node][t.i].id = ts[k].handles[v].id
                   /\ f[t.node][t.i].decl = ts[k].handles[v].id
                   /\ f[t.node][t.i].inst = 0

\* C18: the construction of the factory replaces a component tag by its
\* child nodes, in their order and with their declared ids, and a handle of
\* a component resolves to the element whose id is the declared variable
\* name, whatever currentElementId is.
C18_ComponentSpliced ==
    /\ ComponentHandlesResolve(templates, document)
    /\ (NoFactory /\ TemplateFactory(document).err = "")
       => /\ IsSpliced(TemplateFactory(document).document, document)
          /\ ComponentHandlesResolve(TemplateFactory(document).templates,
                                     TemplateFactory(document).document)

\* C18, its case: a component with a variable whose currentElementId is not
\* empty, in a page where instances of templates were made.
C18_Witness ==
    /\ ninst > 0
    /\ \E k \in Blocks \ TemplateBlocks :
          /\ Len(templates[k].handles) > 0
          /\ templates[k].currentElementId # <<>>

----------------------------------------------------------------------------
(* Claims about the classes of variable elements *)

\* what a caller passes to hasClass: strings of no, one and two names, with
\* one space, two spaces and a space at the end, arrays, and no argument
HasClassArgs ==
    {ClassStr(<<>>), ClassStr(<<"a">>), ClassStr(<<"b">>),
     ClassStr(<<"a", " ", "b">>), ClassStr(<<"b", " ", "a">>),
     ClassStr(<<"a", " ", " ", "b">>), ClassStr(<<"a", " ">>),
     ClassStr(<<"a", " ", "d">>),
     ClassList(<<>>), ClassList(<< <<"a">>, <<"b">> >>),
     ClassList(<< <<"d">>, <<"a">> >>), NoClass}

\* the handles of the blocks that resolve to an element of the document
LiveHandles ==
    {kv \in UNION {{<<k, v>> : v \in 1..Len(templates[k].handles)} : k \in Blocks} :
        target(templates[kv[1]], templates[kv[1]].handles[kv[2]], document).node
          # "null"}

\* the classes of the element a live handle resolves to
ClassesOf(kv) ==
    LET t == target(templates[kv[1]], templates[kv[1]].handles[kv[2]], document)
    IN  document[t.node][t.i].classList

\* C19: hasClass(names) is true exactly when every class the argument
\* names is on the resolved element; the names of a string are its pieces
\* between single spaces (an empty piece is a name no element carries), the
\* names of a list are its elements.
C19_HasClassIsConjunction ==
    \A kv \in LiveHandles : \A c \in HasClassArgs :
        LET r == hasClass(templates[kv[1]], templates[kv[1]].handles[kv[2]],
                          document, c)
            named == IF c.t = "array" THEN Range(c.a)
                     ELSE IF c.t = "string" THEN Range(Split(c.s))
                     ELSE {}
        IN  /\ r.err = ""
            /\ r.ret = (\A name \in named : name \in ClassesOf(kv))

\* C19, its case: an element carries both classes a and b (every name of
\* "a b" is there, one name of "a d" is not), and another carries one of
\* them only.
C19_Witness ==
    /\ \E kv \in LiveHandles : ClassesOf(kv) = { <<"a">>, <<"b">> }
    /\ \E kv \in LiveHandles : ClassesOf(kv) = { <<"b">> }

\* C20: which() of a handle with boolean classes is true exactly when the
\* configured true class is on the resolved element or the configured
\* false class is not on it; which() of a handle without boolean classes
\* returns a false value; neither raises an error.  (A handle with a true
\* class and no false class is left out: the claim does not say whether a
\* false class that is not configured counts as absent.)
C20_Which ==
    \A kv \in LiveHandles :
        LET h == templates[kv[1]].handles[kv[2]]
            w == which(templates[kv[1]], h, document)
            truePresent  == /\ HasLength(h.boolClass.true)
                            /\ Range(Split(h.boolClass.true.s)) \subseteq ClassesOf(kv)
            falsePresent == Range(Split(h.boolClass.false.s)) \subseteq ClassesOf(kv)
        IN  /\ w.err = ""
            /\ ~h.boolClass.set => ~Truthy(w.ret)
            /\ (h.boolClass.set /\ HasLength(h.boolClass.false))
               => (Truthy(w.ret) <=> (truePresent \/ ~falsePresent))

\* sets of class names as a caller passes them: a string of names with
\* single spaces between them, or a list
ClassSetArgs ==
    {ClassStr(<<"a">>), ClassStr(<<"d", " ", "b">>),
     ClassList(<<>>), ClassList(<< <<"a">>, <<"b">> >>)}

\* the names of such a set
NamesOf(c) == IF c.t = "array" THEN Range(c.a) ELSE Range(Split(c.s))

\* C21: setClass(S) followed by removeClass(R) raises no error and leaves
\* the resolved element with the classes (C union S) minus R, where C are
\* the classes it had, and nothing else changed; hasClass(c) is then true
\* for each c in S not in R and false for each c in R.
C21_SetThenRemoveClass ==
    \A kv \in LiveHandles : \A S \in ClassSetArgs : \A R \in ClassSetArgs :
        LET b  == templates[kv[1]]
            h  == b.handles[kv[2]]
            t  == target(b, h, document)
            s1 == setClass(b, h, document, S)
            r1 == removeClass(b, h, s1.document, R)
        IN  /\ s1.err = "" /\ r1.err = ""
            /\ r1.document[t.node][t.i].classList
                  = (ClassesOf(kv) \cup NamesOf(S)) \ NamesOf(R)
            /\ [r1.document EXCEPT ![t.node][t.i].classList = ClassesOf(kv)]
                  = document
            /\ \A c \in NamesOf(S) \ NamesOf(R) :
                  hasClass(b, h, r1.document, ClassStr(c)).ret
            /\ \A c \in NamesOf(R) :
                  ~hasClass(b, h, r1.document, ClassStr(c)).ret

\* C21, its case: a resolved element that starts with class a only, so
\* that S adds to what is there and R removes from it.
C21_Witness ==
    \E kv \in LiveHandles : ClassesOf(kv) = { <<"a">> }

----------------------------------------------------------------------------
(* Claims about the sanitizer *)

\* the characters the comment of flattenObjectId lists as forbidden in a
\* selector (those of the model's alphabet of characters), and white space
Denylist ==
    {"!", "#", "$", "%", "&", "'", "(", ")", "*", "+", ",", "-", ".", "/",
     ":", ";", "<", "=", ">", "?", "@", "[", "]", "^", "{", "|", "}", "~", " "}

\* the characters of s that are not on the denylist, in their order
RECURSIVE Remaining(_)
Remaining(s) ==
    IF s = <<>> THEN <<>>
    ELSE (IF Head(s) \in Denylist THEN <<>> ELSE <<Head(s)>>) \o Remaining(Tail(s))

\* C22: for every string s, sanitize(sanitize(s)) = sanitize(s); sanitize(s)
\* holds no character of the denylist and is made of the other characters
\* of s in their order; the empty string is sanitized to the empty string.
C22_SanitizerIdempotent ==
    LET f == flattenObjectId(oidString)
    IN  /\ flattenObjectId(f) = f
        /\ \A i \in 1..Len(f) : f[i] \notin Denylist
        /\ f = Remaining(oidString)
        /\ oidString = <<>> => f = <<>>

\* C22, its case: a string with two runs of denylisted characters around a
\* character that stays.
C22_Witness ==
    /\ Len(oidString) = 3
    /\ oidString[1] \in Denylist
    /\ oidString[2] \notin Denylist
    /\ oidString[3] \in Denylist

----------------------------------------------------------------------------
(* Claims about finding, addressing and naming instances *)

\* C23: for every template and every object id o, find(o) raises no error
\* and reports true exactly when the document holds an instance of that
\* template whose adopted object id is sanitize(o).
C23_FindIffInstance ==
    \A k \in TemplateBlocks : \A o \in StringArgs :
        LET r == find(templates[k], document, o)
        IN  /\ r.err = ""
            /\ Truthy(r.ret)
                 <=> HasInstance(templates[k].prefixid, flattenObjectId(o.s))

\* the object ids a caller switches the active instance to with find
SwitchArgs == StringArgs \cup {Str(<<"a", "_", "n", "_", "a">>)}

\* C24: a write through a handle (text and value by set, a class by
\* setClass), also after find has switched the active instance, changes
\* only the element whose id is the variable name followed by the current
\* suffix of the block, and that element is not the element of the same
\* variable in an instance with another object id.
C24_WriteFrame ==
    \A k \in Blocks : \A v \in 1..Len(templates[k].handles) :
        \A o \in SwitchArgs \cup {Undefined} :
            LET f  == find(templates[k], document, o)
                b  == f.block
                h  == b.handles[v]
                t  == target(b, h, document)
                el == document[t.node][t.i]
                written == {set(b, h, document, <<"h">>).document,
                            setClass(b, h, document, ClassStr(<<"d">>)).document}
            IN  (f.err = "" /\ t.node # "null")
                => /\ el.id = h.id \o prefix(b)
                   /\ \A d \in written : \A node \in DOMAIN document :
                         \A i \in 1..Len(document[node]) :
                            d[node][i] # document[node][i]
                            => (node = t.node /\ i = t.i)
                   /\ ~( /\ el.inst # 0
                         /\ el.owner = b.prefixid
                         /\ el.decl = h.id
                         /\ el.oid # b.currentElementId )

\* the direct-child elements of the instances of the block named name with
\* object id oid, each named by <<inst, pos>>
RootElementsOf(name, oid) ==
    {<<LiveNodes[i].inst, LiveNodes[i].pos>> :
        i \in {j \in 1..Len(LiveNodes) :
                 /\ LiveNodes[j].inst # 0
                 /\ LiveNodes[j].nodeType = "element"
                 /\ LiveNodes[j].depth = 0
                 /\ LiveNodes[j].owner = name
                 /\ LiveNodes[j].oid = oid}}

\* C25: root of a template whose currentElementId is the object id of an
\* instance in the document raises no error and returns the direct-child
\* elements of that instance, all of them and no other element, whatever
\* node the instance was appended to; with an empty currentElementId it
\* returns an empty list.
C25_RootOfActiveInstance ==
    \A k \in TemplateBlocks :
        LET b == templates[k]
            r == root(b, document)
        IN  /\ b.currentElementId = <<>> => (r.err = "" /\ r.ret = <<>>)
            /\ HasInstance(b.prefixid, b.currentElementId)
               => /\ r.err = ""
                  /\ Range(r.ret) = RootElementsOf(b.prefixid, b.currentElementId)

\* C26: after an appendTo(node, o) on a template that raised no error and
\* made a clone, the clone is the last content of node and the target
\* accessor of the block returns node.
C26_AppendToSetsTarget ==
    \A k \in TemplateBlocks : \A node \in AppendToNodes : \A o \in StringArgs :
        LET r == appendTo(templates[k], document, node, o, ninst + 1)
        IN  (r.err = "" /\ r.document # document)
            => /\ OneInstanceMore(r.document, node)
               /\ getTargetElement(r.block) = node

\* C27: a block registered under the key k has the name k, the suffix of
\* the ids it generates is made with k, and this holds in every state after
\* construction.
C27_NameIsKey ==
    \A k \in Blocks :
        /\ nameOf(templates[k]) = k
        /\ templates[k].bTemplate
           => prefix(templates[k])
                = <<"_">> \o k \o <<"_">> \o templates[k].currentElementId

\* C28: for two templates with different names, an attach on the first
\* that made an instance does not make find of the second report true for an
\* object id it reported false for, and does not change the object id the
\* second adopts at its next attach.
C28_DefinitionsIsolated ==
    \A k1 \in TemplateBlocks : \A k2 \in TemplateBlocks \ {k1} :
        \A o1 \in StringArgs :
            LET a == attach(templates[k1], document, o1, ninst + 1)
            IN  ( /\ nameOf(templates[k1]) # nameOf(templates[k2])
                  /\ a.err = ""
                  /\ a.document # document )
                => \A o2 \in StringArgs :
                      /\ Truthy(find(templates[k2], a.document, o2).ret)
                         => Truthy(find(templates[k2], document, o2).ret)
                      /\ attach(templates[k2], a.document, o2, ninst + 2)
                            .block.currentElementId
                         = attach(templates[k2], document, o2, ninst + 2)
                            .block.currentElementId

----------------------------------------------------------------------------
(* Claims about the boolean class pair and the members of a block *)

\* C29: for every handle with a true class or a false class configured and
\* every class set its element has, choose(bValue) followed by which()
\* raises no error and which() returns a value with the truth of bValue, for
\* bValue true and for bValue false.
C29_ChooseThenWhich ==
    \A kv \in LiveHandles : \A bValue \in BOOLEAN :
        LET b == templates[kv[1]]
            h == b.handles[kv[2]]
            c == choose(b, h, document, bValue)
            w == which(b, h, c.document)
        IN  ( /\ h.boolClass.set
              /\ HasLength(h.boolClass.true) \/ HasLength(h.boolClass.false) )
            => /\ c.err = ""
               /\ w.err = ""
               /\ Truthy(w.ret) <=> bValue

====
